---- MODULE Spec2Model ----
(***************************************************************************)
(* Order fulfilment core: the inventory ledger (services/inventory_service *)
(* .py), the order store (utils/database.py) and the order orchestrator    *)
(* (services/order_processor.py).                                          *)
(*                                                                         *)
(* Every coroutine is a task.  A task owns one frame: the ledger function  *)
(* it is executing, that function's arguments and locals, and its position *)
(* relative to the ledger lock.  asyncio runs one task at a time and       *)
(* switches only at an await, so a step of the model is the code between   *)
(* two awaits at which another task can observe or change ledger state.    *)
(***************************************************************************)
EXTENDS Integers, Sequences, FiniteSets, TLC

\* ---------------------------------------------------------------------
\* Bounds and input sets
\* ---------------------------------------------------------------------
MaxReservations == 2

MaxItems == 2

MaxOrders == 2

\* tasks that call the ledger functions directly
Callers == {1, 2}

\* tasks that run OrderProcessor.process
Processors == {3}

ProductIds == {"prod_1", "prod_x"}

Quantities == {0, 40, 70}

InitialInventory == {50, 100}

\* the order_id argument of direct reserve_stock calls
OrderIds == {"order_user_123"}

\* the user_id a processor is given; "user_x" is in no database
UserIds == {"user_123", "user_x"}

OrderDataKeys ==
    {"items", "total_amount", "shipping_address", "payment_details", "products"}

\* order_data is an input that process only reads: the model draws the
\* keys _validate_order looks at when the processor starts, and the
\* 'payment_details' entry, the 'products' entry and each element of
\* 'items' at the one place where process reads it
ValidatedKeys == {"items", "total_amount", "shipping_address"}

ValidatedKeySets == {ValidatedKeys, ValidatedKeys \ {"shipping_address"}}

OptionalKeySets == {{}, {"payment_details"}, {"products"}}

Amounts == {97, 20000}

\* the amount argument of direct process_payment calls
PaymentAmounts == {0, 97, 20000}

\* the keys of the card_data argument of direct process_payment calls
CardDataSets ==
    {{"card_number", "expiry_month", "expiry_year", "cvv"},
     {"card_number", "expiry_month", "expiry_year"}}

\* the items of the carts that orders are created from (price in dollars)
CartItems ==
    {[product_id |-> "prod_1", price |-> 100, quantity |-> 2],
     [product_id |-> "prod_1", price |-> 100, quantity |-> 40]}

\* the quantities that the availability is asked for
CheckQuantities == {30, 60}

\* the keys of the order_data argument of direct save_order calls
SaveOrderKeySets ==
    {{"user_id", "products", "total_amount", "payment_status", "shipping_address"},
     {"user_id", "products", "total_amount", "payment_status"},
     {"user_id", "total_amount", "payment_status"}}

\* the total_amount of the orders saved directly
SaveOrderAmounts == {0, 97}

\* the status argument of direct update_order_status calls
Statuses ==
    {"pending", "processing", "shipped", "delivered", "cancelled", "completed",
     "refunded"}

\* the items a checkout request is made of
CheckoutItems ==
    {[product_id |-> "prod_1", quantity |-> 2],
     [product_id |-> "prod_1", quantity |-> 70],
     [product_id |-> "prod_1", quantity |-> 0],
     [product_id |-> "prod_x", quantity |-> 2]}

\* what send_order_confirmation comes back with
EmailResults == {"sent", "EmailError"}

\* the quantities of the items of an order
ItemQuantities == {0, 40, 70}

\* what a gateway call can come back with ("timeout": asyncio.TimeoutError)
GatewayResponses ==
    {[status |-> "success", error_code |-> ""],
     [status |-> "insufficient_funds", error_code |-> ""],
     [status |-> "invalid_card", error_code |-> ""],
     [status |-> "error", error_code |-> "service_unavailable"],
     [status |-> "error", error_code |-> "rate_limit_exceeded"],
     [status |-> "error", error_code |-> "card_declined"],
     [status |-> "timeout", error_code |-> ""]}

\* ---------------------------------------------------------------------
\* Program constants
\* ---------------------------------------------------------------------
\* _DATABASE['products']: the catalog (read-only in this model)
products == {"prod_1"}

\* inventory_service.py: "assume 100 units per product"
total_stock == 100

\* reserve_stock: "Quantity exceeds maximum limit (1000)"
MaxReserveQuantity == 1000

\* _DATABASE['users']
users == {"user_123"}

\* config/settings.py
MAX_ORDER_AMOUNT == 10000

MAX_PAYMENT_RETRIES == 3

\* process_payment: "Payment amount exceeds maximum limit ($10,000)"
MaxPaymentAmount == 10000

MIN_ORDER_AMOUNT == 1

\* TAX_RATE = 0.08, in percent
TAX_RATE == 8

\* process_checkout computes in dollars; the model computes in cents
Cents == 100

\* _DATABASE['products'][p]['price'] in cents (initialize_test_data: 999.99)
price == [p \in products |-> 99999]

VARIABLES
    reservations,       \* _reservations: reservation_id -> record (id = index)
    reservation_lock,   \* _reservation_lock: 0 when unlocked, else the holding task
    inventory,          \* _DATABASE['inventory']: product_id -> quantity
    initial_inventory,  \* the inventory the database was loaded with
    db_lock,            \* _db_lock: 0 when unlocked, else the holding task
    frame,              \* task -> frame of the ledger function it is running
    orders,             \* _DATABASE['orders']: order_id -> record (id = index)
    orch,               \* processor task -> its OrderProcessor object and position
    payment,            \* the frame of a direct call of process_payment
    checkout,           \* checkout task -> the locals of its process_checkout call
    store_call          \* the last direct call of save_order or update_order_status

ledger_vars ==
    <<reservations, reservation_lock, inventory, initial_inventory, db_lock>>

saga_vars == <<orders, orch>>

\* what the ledger functions and OrderProcessor never touch
api_vars == <<payment, checkout, store_call>>

vars == <<reservations, reservation_lock, inventory, initial_inventory, db_lock,
          frame, orders, orch, payment, checkout, store_call>>

\* ---------------------------------------------------------------------
\* Tasks and frames
\* ---------------------------------------------------------------------
NoFrame ==
    [fn |-> "none", pc |-> "idle", product_id |-> "", quantity |-> 0,
     order_id |-> "", reservation_id |-> 0, ret |-> "none", value |-> 0,
     result |-> <<>>]

\* the task created by asyncio.create_task(_expire_reservation_after_timeout(...))
ExpiryTask(rid) == Cardinality(Callers \cup Processors) + rid

Max(a, b) == IF a >= b THEN a ELSE b

RECURSIVE SumQuantity(_, _, _)
\* sum(res['quantity'] for res in records[1..n] if product and status match)
SumQuantity(n, product_id, statuses) ==
    IF n = 0 THEN 0
    ELSE SumQuantity(n - 1, product_id, statuses)
         + (IF /\ reservations[n].product_id = product_id
               /\ reservations[n].status \in statuses
            THEN reservations[n].quantity ELSE 0)

reserved_quantity(product_id) ==
    SumQuantity(Len(reservations), product_id, {"active"})

get_available_stock(product_id) ==
    IF product_id \notin products THEN 0
    ELSE Max(0, total_stock - reserved_quantity(product_id))

\* mutant: the check of line 92 never rejects
insufficient_stock_never(available_stock, quantity) == FALSE

\* reserve_stock line 92: if available_stock < quantity
insufficient_stock(available_stock, quantity) == available_stock < quantity

\* update_inventory raises RuntimeError when the new quantity is negative
update_inventory_ok(product_id, quantity_change) ==
    inventory[product_id] + quantity_change >= 0

SetFrame(t, f) == frame' = [frame EXCEPT ![t] = f]

\* ---------------------------------------------------------------------
\* The ledger lock: asyncio.Lock, not reentrant
\* ---------------------------------------------------------------------
lock_acquire(t) ==
    /\ frame[t].pc = "wait_lock"
    /\ reservation_lock = 0
    /\ reservation_lock' = t
    /\ SetFrame(t, [frame[t] EXCEPT !.pc = "in_cs"])
    /\ UNCHANGED <<reservations, inventory, initial_inventory, db_lock, saga_vars,
                   api_vars>>

\* a ledger function that returns with the lock still held by its task
lock_kept(t) == t

\* the end of an "async with _reservation_lock" block: the lock is free
lock_released(t) == 0

\* ---------------------------------------------------------------------
\* reserve_stock
\* ---------------------------------------------------------------------
\* lines 73-86: parameter validation and catalog lookup, before the lock
reserve_stock_entry(product_id, quantity) ==
    IF quantity <= 0 THEN "ValueError"
    ELSE IF quantity > MaxReserveQuantity THEN "ValueError"
    ELSE IF product_id \notin products THEN "InvalidProductError"
    ELSE "wait_lock"

\* lines 88-146: the critical section
reserve_stock_cs(t) ==
    LET f == frame[t]
        rid == Len(reservations) + 1
        rec == [reservation_id |-> rid, product_id |-> f.product_id,
                quantity |-> f.quantity, order_id |-> f.order_id,
                status |-> "active"]
    IN
    /\ f.fn = "reserve_stock"
    /\ f.pc = "in_cs"
    /\ reservation_lock' = lock_released(t)
    /\ UNCHANGED <<initial_inventory, db_lock, saga_vars, api_vars>>
    /\ IF insufficient_stock(get_available_stock(f.product_id), f.quantity)
       THEN /\ SetFrame(t, [f EXCEPT !.pc = "returned",
                                     !.ret = "InsufficientStockError"])
            /\ UNCHANGED <<reservations, inventory>>
       ELSE /\ db_lock = 0   \* update_inventory takes and frees _db_lock
            /\ reservations' = Append(reservations, rec)
            /\ IF update_inventory_ok(f.product_id, -f.quantity)
               THEN /\ inventory' = [inventory EXCEPT ![f.product_id] = @ - f.quantity]
                    /\ frame' =
                         (ExpiryTask(rid) :>
                             [NoFrame EXCEPT !.fn = "expire", !.pc = "sleeping",
                                             !.reservation_id = rid])
                         @@ [frame EXCEPT ![t] =
                               [f EXCEPT !.pc = "returned", !.ret = "ok",
                                         !.reservation_id = rid]]
               ELSE \* update_inventory raised: the record stays, no expiry task
                    /\ SetFrame(t, [f EXCEPT !.pc = "returned",
                                             !.ret = "RuntimeError",
                                             !.reservation_id = rid])
                    /\ UNCHANGED inventory

\* ---------------------------------------------------------------------
\* confirm_reservation
\* ---------------------------------------------------------------------
\* confirm_reservation that takes a reservation of any status
confirmable_any(status) == TRUE

\* line 168: only an active reservation is confirmed
confirmable(status) == status = "active"

confirm_reservation_cs(t) ==
    LET f == frame[t]
        rid == f.reservation_id
    IN
    /\ f.fn = "confirm_reservation"
    /\ f.pc = "in_cs"
    /\ reservation_lock' = lock_released(t)
    /\ UNCHANGED <<inventory, initial_inventory, db_lock, saga_vars, api_vars>>
    /\ IF rid \notin DOMAIN reservations
       THEN /\ SetFrame(t, [f EXCEPT !.pc = "returned",
                                     !.ret = "InventoryError:not_found"])
            /\ UNCHANGED reservations
       ELSE IF ~confirmable(reservations[rid].status)
       THEN /\ SetFrame(t, [f EXCEPT !.pc = "returned",
                                     !.ret = "InventoryError:already"])
            /\ UNCHANGED reservations
       ELSE /\ reservations' = [reservations EXCEPT ![rid].status = "confirmed"]
            /\ SetFrame(t, [f EXCEPT !.pc = "returned", !.ret = "True"])

\* ---------------------------------------------------------------------
\* release_stock (by reservation id, as every caller in the repository does)
\* ---------------------------------------------------------------------
\* release_stock that takes a reservation of any status
releasable_any(status) == TRUE

\* release_stock that turns down only a released reservation
releasable_unless_released(status) == status # "released"

\* line 217: only an active reservation is released
releasable(status) == status = "active"

release_stock_cs(t) ==
    LET f == frame[t]
        rid == f.reservation_id
    IN
    /\ f.fn = "release_stock"
    /\ f.pc = "in_cs"
    /\ reservation_lock' = lock_released(t)
    /\ UNCHANGED <<initial_inventory, db_lock, saga_vars, api_vars>>
    /\ IF rid \notin DOMAIN reservations
       THEN /\ SetFrame(t, [f EXCEPT !.pc = "returned", !.ret = "False"])
            /\ UNCHANGED <<reservations, inventory>>
       ELSE IF ~releasable(reservations[rid].status)
       THEN /\ SetFrame(t, [f EXCEPT !.pc = "returned", !.ret = "False"])
            /\ UNCHANGED <<reservations, inventory>>
       ELSE /\ db_lock = 0   \* update_inventory takes and frees _db_lock
            /\ inventory' = [inventory EXCEPT ![reservations[rid].product_id] =
                                                 @ + reservations[rid].quantity]
            /\ reservations' = [reservations EXCEPT ![rid].status = "released"]
            /\ SetFrame(t, [f EXCEPT !.pc = "returned", !.ret = "True"])

\* ---------------------------------------------------------------------
\* _expire_reservation_after_timeout
\* ---------------------------------------------------------------------
\* lines 325-345.  When the sleep ends the task takes the lock as soon as it
\* is free and, with no await in between, looks at the reservation: one that
\* is no longer active lets the task finish and unlock; an active one is
\* handed to release_stock, which starts by awaiting the same lock while
\* this task still holds it.
expire(t) ==
    LET f == frame[t]
        rid == f.reservation_id
    IN
    /\ f.fn = "expire"
    /\ f.pc = "sleeping"
    /\ reservation_lock = 0
    /\ UNCHANGED <<reservations, inventory, initial_inventory, db_lock, saga_vars,
                   api_vars>>
    /\ IF rid \in DOMAIN reservations /\ reservations[rid].status = "active"
       THEN /\ SetFrame(t, [f EXCEPT !.fn = "release_stock", !.pc = "wait_lock"])
            /\ reservation_lock' = t
       ELSE /\ SetFrame(t, [f EXCEPT !.pc = "returned"])
            /\ UNCHANGED reservation_lock

\* ---------------------------------------------------------------------
\* Direct calls of the ledger functions by a client task
\* ---------------------------------------------------------------------
CanCall(c) == frame[c].pc \in {"idle", "returned"}

InFlightReserves ==
    Cardinality({t \in DOMAIN frame :
                    /\ frame[t].fn = "reserve_stock"
                    /\ frame[t].pc \in {"wait_lock", "in_cs"}})

call_reserve_stock(c, product_id, quantity, order_id) ==
    LET entry == reserve_stock_entry(product_id, quantity) IN
    /\ CanCall(c)
    /\ Len(reservations) + InFlightReserves < MaxReservations
    /\ SetFrame(c, [NoFrame EXCEPT
                      !.fn = "reserve_stock", !.product_id = product_id,
                      !.quantity = quantity, !.order_id = order_id,
                      !.pc = IF entry = "wait_lock" THEN "wait_lock" ELSE "returned",
                      !.ret = IF entry = "wait_lock" THEN "none" ELSE entry])
    /\ UNCHANGED <<ledger_vars, saga_vars, api_vars>>

call_confirm_reservation(c, rid) ==
    /\ CanCall(c)
    /\ SetFrame(c, [NoFrame EXCEPT !.fn = "confirm_reservation",
                                   !.reservation_id = rid, !.pc = "wait_lock"])
    /\ UNCHANGED <<ledger_vars, saga_vars, api_vars>>

call_release_stock(c, rid) ==
    /\ CanCall(c)
    /\ SetFrame(c, [NoFrame EXCEPT !.fn = "release_stock",
                                   !.reservation_id = rid, !.pc = "wait_lock"])
    /\ UNCHANGED <<ledger_vars, saga_vars, api_vars>>

\* ---------------------------------------------------------------------
\* check_stock_availability, and the cart's _check_stock around it
\* ---------------------------------------------------------------------
\* check_stock_availability that asks for more than the quantity
is_available_strict(available_stock, quantity) == available_stock > quantity

\* line 280: is_available = available_stock >= quantity
is_available(available_stock, quantity) == available_stock >= quantity

\* the call, up to the await of get_product_by_id in _get_available_stock
call_check_stock_availability(c, product_id, quantity) ==
    /\ CanCall(c)
    /\ SetFrame(c, [NoFrame EXCEPT !.fn = "check_stock_availability",
                                   !.product_id = product_id,
                                   !.quantity = quantity, !.pc = "get_product"])
    /\ UNCHANGED <<ledger_vars, saga_vars, api_vars>>

\* lines 279-282 and 297-311: the tuple (is_available, available_stock)
check_stock_availability_result(product_id, quantity) ==
    <<is_available(get_available_stock(product_id), quantity),
      get_available_stock(product_id)>>

\* get_product_by_id returned; the sum over _reservations and the return
\* follow with no await in between and without the ledger lock
check_stock_availability_return(t) ==
    LET f == frame[t] IN
    /\ f.fn = "check_stock_availability"
    /\ f.pc = "get_product"
    /\ SetFrame(t, [f EXCEPT !.pc = "returned", !.ret = "tuple",
                             !.result = check_stock_availability_result(
                                            f.product_id, f.quantity)])
    /\ UNCHANGED <<ledger_vars, saga_vars, api_vars>>

\* bool(value) of a Python tuple: an empty tuple is false, any other true
truth_value(value) == Len(value) > 0

\* cart.py _check_stock, up to the await inside check_stock_availability
call_check_stock(c, product_id, quantity) ==
    /\ CanCall(c)
    /\ SetFrame(c, [NoFrame EXCEPT !.fn = "_check_stock",
                                   !.product_id = product_id,
                                   !.quantity = quantity, !.pc = "get_product"])
    /\ UNCHANGED <<ledger_vars, saga_vars, api_vars>>

\* cart.py lines 680-693: is_available is the whole tuple that
\* check_stock_availability returned, and "if not is_available" tests it
check_stock_return(t) ==
    LET f == frame[t]
        is_available_tuple == check_stock_availability_result(f.product_id, f.quantity)
    IN
    /\ f.fn = "_check_stock"
    /\ f.pc = "get_product"
    /\ SetFrame(t, [f EXCEPT !.pc = "returned",
                             !.result = is_available_tuple,
                             !.ret = IF ~truth_value(is_available_tuple)
                                     THEN "InsufficientStockError" ELSE "True"])
    /\ UNCHANGED <<ledger_vars, saga_vars, api_vars>>

\* ---------------------------------------------------------------------
\* Payment: one call of process_payment, i.e. one gateway attempt
\* ---------------------------------------------------------------------
RequiredCardFields == {"card_number", "expiry_month", "expiry_year", "cvv"}

\* mutant: every gateway error is taken for a transient one
is_retryable_error_always(gateway_response) == TRUE

\* _is_retryable_error
is_retryable_error(gateway_response) ==
    gateway_response.error_code \in
        {"gateway_timeout", "service_unavailable", "rate_limit_exceeded",
         "network_error"}

\* mutant: one retry more than the budget
can_retry_once_more(retry_count) == retry_count <= MAX_PAYMENT_RETRIES

\* lines 174 and 219: retry_count < MAX_PAYMENT_RETRIES
can_retry(retry_count) == retry_count < MAX_PAYMENT_RETRIES

\* mutant: process_payment does not look at its arguments
process_payment_entry_unchecked(amount, card_data) == "ok"

\* lines 113-125: what process_payment checks before it talks to the gateway
process_payment_entry(amount, card_data) ==
    IF amount <= 0 THEN "ValueError"
    ELSE IF amount > MaxPaymentAmount THEN "ValueError"
    ELSE IF RequiredCardFields \ card_data # {} THEN "InvalidCardError"
    ELSE "ok"

\* mutant: a timeout is not retried
on_timeout_give_up(retry_count) == "PaymentGatewayError"

\* lines 212-232: except asyncio.TimeoutError
on_timeout(retry_count) ==
    IF can_retry(retry_count) THEN "retry" ELSE "PaymentGatewayError"

\* mutant: the delay grows by one second per retry
backoff_seconds_linear(retry_count) == retry_count + 1

\* lines 187 and 221: backoff_seconds = 2 ** retry_count
backoff_seconds(retry_count) == 2 ^ retry_count

\* what one call of process_payment does with the outcome of its gateway
\* call: "completed", "retry" (sleep, then the recursive call with
\* retry_count + 1) or the exception it raises
process_payment_attempt(amount, card_data, retry_count, gateway_response) ==
    IF process_payment_entry(amount, card_data) # "ok"
    THEN process_payment_entry(amount, card_data)
    ELSE IF gateway_response.status = "timeout" THEN on_timeout(retry_count)
    ELSE IF gateway_response.status = "success" THEN "completed"
    ELSE IF gateway_response.status = "insufficient_funds" THEN "InsufficientFundsError"
    ELSE IF gateway_response.status = "invalid_card" THEN "InvalidCardError"
    ELSE IF is_retryable_error(gateway_response) /\ can_retry(retry_count)
         THEN "retry"
    ELSE "PaymentGatewayError"

\* the logger call that reports the outcome of a gateway call, if any:
\* log_payment_success (line 149), log_error (lines 176 and 213) or
\* log_payment_failure (line 202); lines 166-170 raise without one
outcome_event(retry_count, gateway_response) ==
    IF gateway_response.status = "timeout" THEN "log_error"
    ELSE IF gateway_response.status = "success" THEN "log_payment_success"
    ELSE IF gateway_response.status \in {"insufficient_funds", "invalid_card"}
    THEN "none"
    ELSE IF is_retryable_error(gateway_response) /\ can_retry(retry_count)
    THEN "log_error"
    ELSE "log_payment_failure"

\* ---------------------------------------------------------------------
\* process_payment called directly: the call, its gateway calls, its
\* backoff sleeps and its recursive calls
\* ---------------------------------------------------------------------
\* the task that calls process_payment
PaymentCaller == 1

\* f"txn_{uuid4().hex[:16]}": fresh in every call of process_payment
transaction_id_of(o, retry_count) == 10 * o + retry_count + 1

\* log: the log_payment_attempt records; outcome_log: the records of the
\* logger calls that report an outcome; gateway_calls: what the gateway was
\* sent and what it answered; backoffs: the delays slept so far
NoPaymentCall ==
    [pc |-> "idle", amount |-> 0, card_data |-> {}, retry_count |-> 0,
     transaction_id |-> 0, log |-> <<>>, outcome_log |-> <<>>,
     gateway_calls |-> <<>>, backoffs |-> <<>>, result |-> "none"]

\* lines 113-136 of the call with the given retry_count
process_payment_begin(p, retry_count) ==
    LET entry == process_payment_entry(p.amount, p.card_data)
        transaction_id == transaction_id_of(PaymentCaller, retry_count)
    IN
    IF entry # "ok"
    THEN [p EXCEPT !.pc = "raised", !.result = entry]
    ELSE [p EXCEPT !.pc = "gateway", !.retry_count = retry_count,
                   !.transaction_id = transaction_id,
                   !.log = Append(@, [transaction_id |-> transaction_id,
                                      amount |-> p.amount,
                                      attempt_number |-> retry_count + 1])]

call_process_payment(amount, card_data) ==
    /\ payment.pc = "idle"
    /\ payment' = process_payment_begin(
                      [payment EXCEPT !.amount = amount, !.card_data = card_data], 0)
    /\ UNCHANGED <<ledger_vars, frame, saga_vars, checkout, store_call>>

\* lines 138-232: the call p of process_payment after its gateway call came
\* back with gateway_response
after_gateway(p, gateway_response) ==
    LET r == process_payment_attempt(p.amount, p.card_data, p.retry_count,
                                     gateway_response)
        event == outcome_event(p.retry_count, gateway_response)
        called == [p EXCEPT
                     !.gateway_calls =
                         Append(@, [transaction_id |-> p.transaction_id,
                                    response |-> gateway_response]),
                     !.outcome_log =
                         IF event = "none" THEN @
                         ELSE Append(@, [transaction_id |-> p.transaction_id,
                                         event |-> event])]
    IN
    IF r = "retry"
    THEN [called EXCEPT !.pc = "backoff",
                        !.backoffs = Append(@, backoff_seconds(p.retry_count))]
    ELSE IF r = "completed"
    THEN [called EXCEPT !.pc = "returned", !.result = "completed"]
    ELSE [called EXCEPT !.pc = "raised", !.result = r]

\* _call_payment_gateway returned or timed out
gateway_return(gateway_response) ==
    /\ payment.pc = "gateway"
    /\ payment' = after_gateway(payment, gateway_response)
    /\ UNCHANGED <<ledger_vars, frame, saga_vars, checkout, store_call>>

\* lines 188-197 and 222-230: the sleep ends, process_payment calls itself
backoff_end ==
    /\ payment.pc = "backoff"
    /\ payment' = process_payment_begin(payment, payment.retry_count + 1)
    /\ UNCHANGED <<ledger_vars, frame, saga_vars, checkout, store_call>>

\* ---------------------------------------------------------------------
\* Order store: save_order
\* ---------------------------------------------------------------------
\* save_order line 59
RequiredOrderFields == {"user_id", "products", "total_amount", "payment_status"}

\* save_order without the validation of lines 58-71
save_order_entry_unchecked(keys, total_amount) == "ok"

\* lines 58-71: validation (a 'products' entry, when present, is a
\* non-empty list in this model)
save_order_entry(keys, total_amount) ==
    IF RequiredOrderFields \ keys # {}
    THEN "ValueError"
    ELSE IF total_amount <= 0 THEN "ValueError"
    ELSE "ok"

\* ---------------------------------------------------------------------
\* Order store: direct calls of save_order and update_order_status
\* ---------------------------------------------------------------------
NoStoreCall == [fn |-> "none", order_id |-> 0, status |-> "", result |-> "none"]

\* save_order(order_data) for a user's order that no payment is tied to;
\* the database lock is taken and is free again when the call returns
call_save_order(keys, total_amount) ==
    LET entry == save_order_entry(keys, total_amount)
        order_id == Len(orders) + 1
    IN
    /\ Len(orders) < MaxOrders
    /\ IF entry = "ok"
       THEN /\ db_lock = 0
            /\ orders' = Append(orders,
                           [order_id |-> order_id, user_id |-> "user_123",
                            total_amount |-> total_amount,
                            payment_transaction_id |-> 0,
                            payment_status |-> "completed",
                            status |-> "pending"])
            /\ store_call' = [NoStoreCall EXCEPT !.fn = "save_order",
                                                 !.order_id = order_id,
                                                 !.result = "ok"]
       ELSE /\ store_call' = [NoStoreCall EXCEPT !.fn = "save_order",
                                                 !.result = entry]
            /\ UNCHANGED orders
    /\ UNCHANGED <<ledger_vars, frame, orch, payment, checkout>>

\* update_order_status line 265
valid_statuses == {"pending", "processing", "shipped", "delivered", "cancelled"}

\* update_order_status(order_id, status)
call_update_order_status(order_id, status) ==
    /\ IF status \notin valid_statuses
       THEN /\ store_call' = [fn |-> "update_order_status", order_id |-> order_id,
                              status |-> status, result |-> "ValueError:status"]
            /\ UNCHANGED orders
       ELSE IF order_id \notin DOMAIN orders
       THEN /\ db_lock = 0
            /\ store_call' = [fn |-> "update_order_status", order_id |-> order_id,
                              status |-> status, result |-> "ValueError:not_found"]
            /\ UNCHANGED orders
       ELSE /\ db_lock = 0
            /\ orders' = [orders EXCEPT ![order_id].status = status]
            /\ store_call' = [fn |-> "update_order_status", order_id |-> order_id,
                              status |-> status, result |-> "True"]
    /\ UNCHANGED <<ledger_vars, frame, orch, payment, checkout>>

\* ---------------------------------------------------------------------
\* OrderProcessor
\* ---------------------------------------------------------------------
NoPayment == [status |-> "none", transaction_id |-> 0]

\* OrderProcessor.__init__
NoOrch ==
    [pc |-> "init", user_id |-> "", total_amount |-> 0,
     idx |-> 0, reservations |-> <<>>, retry_count |-> 0,
     payment_result |-> NoPayment, order_id |-> 0, error |-> "",
     failed_at |-> "", items |-> <<>>]

\* f"order_{self.user_id}"
order_id_of(user_id) == "order_" \o user_id

\* _validate_order
validate_order(user_id, keys, total_amount) ==
    IF user_id \notin users THEN "OrderValidationError"
    ELSE IF {"items", "total_amount", "shipping_address"} \ keys # {}
    THEN "OrderValidationError"
    ELSE IF total_amount > MAX_ORDER_AMOUNT THEN "OrderValidationError"
    ELSE "ok"

\* mutant: the cleanup forgets the last reservation
reservations_to_release_but_last(reservation_ids) ==
    SubSeq(reservation_ids, 1, Len(reservation_ids) - 1)

\* _handle_error that releases every reservation of the ledger
reservations_to_release_all(reservation_ids) ==
    [i \in 1..Len(reservations) |-> i]

\* _handle_error line 280: for reservation_id in self.reservations
reservations_to_release(reservation_ids) == reservation_ids

\* process lines 141-143: except Exception -> _handle_error -> raise
Raise(o, error, step) ==
    orch' = [orch EXCEPT ![o] =
               [@ EXCEPT !.error = error, !.failed_at = step, !.idx = 1,
                         !.retry_count = 0,
                         !.pc = IF reservations_to_release(orch[o].reservations) = <<>>
                                THEN "failed" ELSE "handle_error"]]

\* process() up to the end of _validate_order
process_start(o, user_id, keys, total_amount) ==
    LET v == validate_order(user_id, keys, total_amount) IN
    /\ orch[o].pc = "init"
    /\ IF v # "ok"
       THEN orch' = [orch EXCEPT ![o] =
                       [@ EXCEPT !.user_id = user_id, !.pc = "failed",
                                 !.error = v, !.failed_at = "validate"]]
       ELSE orch' = [orch EXCEPT ![o] =
                       [@ EXCEPT !.user_id = user_id,
                                 !.total_amount = total_amount,
                                 !.pc = "reserve"]]
    /\ UNCHANGED <<ledger_vars, frame, orders, api_vars>>

\* create_order_from_cart lines 313-318: the keys of the order_data it builds
CartOrderDataKeys == {"items", "subtotal", "tax_amount", "total_amount"}

RECURSIVE cart_subtotal(_)
\* line 309: sum(item['price'] * item['quantity'] for item in cart_items)
cart_subtotal(cart_items) ==
    IF cart_items = <<>> THEN 0
    ELSE Head(cart_items).price * Head(cart_items).quantity
         + cart_subtotal(Tail(cart_items))

\* lines 309-311, in whole dollars
cart_total_amount(cart_items) ==
    cart_subtotal(cart_items) + (cart_subtotal(cart_items) * TAX_RATE) \div 100

\* create_order_from_cart: the order_data is built and process() runs up
\* to the end of _validate_order (the reserve step would go on with the
\* items of the order_data)
create_order_from_cart(o, user_id, cart_items) ==
    LET total_amount == cart_total_amount(cart_items)
        v == validate_order(user_id, CartOrderDataKeys, total_amount)
    IN
    /\ orch[o].pc = "init"
    /\ IF v # "ok"
       THEN orch' = [orch EXCEPT ![o] =
                       [@ EXCEPT !.user_id = user_id, !.items = cart_items,
                                 !.pc = "failed", !.error = v,
                                 !.failed_at = "validate"]]
       ELSE orch' = [orch EXCEPT ![o] =
                       [@ EXCEPT !.user_id = user_id, !.items = cart_items,
                                 !.total_amount = total_amount,
                                 !.pc = "reserve"]]
    /\ UNCHANGED <<ledger_vars, frame, orders, api_vars>>

\* _reserve_inventory: the call of reserve_stock for the next item
reserve_inventory_call(o, product_id, quantity) ==
    LET entry == reserve_stock_entry(product_id, quantity) IN
    /\ orch[o].pc = "reserve"
    /\ frame[o].pc = "idle"
    /\ Len(orch[o].reservations) < MaxItems
    /\ IF entry = "wait_lock"
       THEN /\ SetFrame(o, [NoFrame EXCEPT
                              !.fn = "reserve_stock", !.pc = "wait_lock",
                              !.product_id = product_id, !.quantity = quantity,
                              !.order_id = order_id_of(orch[o].user_id)])
            /\ UNCHANGED orch
       ELSE /\ Raise(o, entry, "reserve")
            /\ UNCHANGED frame
    /\ UNCHANGED <<ledger_vars, orders, api_vars>>

\* _reserve_inventory: reserve_stock returned or raised
reserve_inventory_return(o) ==
    /\ orch[o].pc = "reserve"
    /\ frame[o].fn = "reserve_stock"
    /\ frame[o].pc = "returned"
    /\ SetFrame(o, NoFrame)
    /\ IF frame[o].ret = "ok"
       THEN orch' = [orch EXCEPT ![o].reservations =
                                    Append(@, frame[o].reservation_id)]
       ELSE Raise(o, frame[o].ret, "reserve")
    /\ UNCHANGED <<ledger_vars, orders, api_vars>>

\* _reserve_inventory: 'items' has no further element
reserve_inventory_done(o) ==
    /\ orch[o].pc = "reserve"
    /\ frame[o].pc = "idle"
    /\ orch' = [orch EXCEPT ![o].pc = "payment"]
    /\ UNCHANGED <<ledger_vars, frame, orders, api_vars>>

\* _process_payment: one gateway attempt of process_payment
process_payment_step(o, keys, gateway_response) ==
    LET r == process_payment_attempt(orch[o].total_amount, RequiredCardFields,
                                     orch[o].retry_count, gateway_response)
    IN
    /\ orch[o].pc = "payment"
    /\ IF orch[o].retry_count = 0 /\ "payment_details" \notin keys
       THEN Raise(o, "KeyError", "payment")
       ELSE IF r = "retry"
       THEN orch' = [orch EXCEPT ![o].retry_count = @ + 1]
       ELSE IF r = "completed"
       THEN orch' = [orch EXCEPT ![o] =
                       [@ EXCEPT !.pc = "create_order", !.retry_count = 0,
                                 !.payment_result =
                                     [status |-> "completed",
                                      transaction_id |->
                                          transaction_id_of(o, orch[o].retry_count)]]]
       ELSE Raise(o, r, "payment")
    /\ UNCHANGED <<ledger_vars, frame, orders, api_vars>>

\* _create_order up to the sleep of save_order (database.py lines 58-87):
\* the validation, then the database lock is taken
create_order(o, order_data_keys) ==
    LET keys == order_data_keys \cup
                  {"user_id", "payment_transaction_id", "payment_status"}
    IN
    /\ orch[o].pc = "create_order"
    /\ IF save_order_entry(keys, orch[o].total_amount) = "ok"
       THEN /\ db_lock = 0
            /\ db_lock' = o
            /\ orch' = [orch EXCEPT ![o].pc = "save_order"]
       ELSE /\ Raise(o, save_order_entry(keys, orch[o].total_amount), "create_order")
            /\ UNCHANGED db_lock
    /\ UNCHANGED <<reservations, reservation_lock, inventory, initial_inventory,
                   frame, orders, api_vars>>

\* save_order after its sleep (database.py lines 90-92): the record is
\* written and the database lock freed; _create_order keeps the order_id
save_order_write(o) ==
    LET order_id == Len(orders) + 1 IN
    /\ orch[o].pc = "save_order"
    /\ db_lock = o
    /\ db_lock' = 0
    /\ orders' = Append(orders,
                        [order_id |-> order_id, user_id |-> orch[o].user_id,
                         total_amount |-> orch[o].total_amount,
                         payment_transaction_id |->
                             orch[o].payment_result.transaction_id,
                         payment_status |-> "completed",
                         status |-> "pending"])
    /\ orch' = [orch EXCEPT ![o] =
                  [@ EXCEPT !.order_id = order_id, !.idx = 1,
                            !.pc = IF orch[o].reservations = <<>>
                                   THEN "success" ELSE "confirm"]]
    /\ UNCHANGED <<reservations, reservation_lock, inventory, initial_inventory,
                   frame, api_vars>>

\* _confirm_reservations: the call of confirm_reservation
confirm_reservations_call(o) ==
    /\ orch[o].pc = "confirm"
    /\ frame[o].pc = "idle"
    /\ SetFrame(o, [NoFrame EXCEPT
                      !.fn = "confirm_reservation", !.pc = "wait_lock",
                      !.reservation_id = orch[o].reservations[orch[o].idx]])
    /\ UNCHANGED <<ledger_vars, saga_vars, api_vars>>

\* _confirm_reservations: confirm_reservation returned or raised
confirm_reservations_return(o) ==
    /\ orch[o].pc = "confirm"
    /\ frame[o].fn = "confirm_reservation"
    /\ frame[o].pc = "returned"
    /\ SetFrame(o, NoFrame)
    /\ IF frame[o].ret = "True"
       THEN orch' = [orch EXCEPT ![o] =
                       [@ EXCEPT !.idx = @ + 1,
                                 !.pc = IF orch[o].idx = Len(orch[o].reservations)
                                        THEN "success" ELSE "confirm"]]
       ELSE Raise(o, "InventoryError", "confirm")
    /\ UNCHANGED <<ledger_vars, orders, api_vars>>

\* _handle_error: the call of release_stock
handle_error_call(o) ==
    /\ orch[o].pc = "handle_error"
    /\ frame[o].pc = "idle"
    /\ SetFrame(o, [NoFrame EXCEPT
                      !.fn = "release_stock", !.pc = "wait_lock",
                      !.reservation_id =
                          reservations_to_release(orch[o].reservations)[orch[o].idx]])
    /\ UNCHANGED <<ledger_vars, saga_vars, api_vars>>

\* _handle_error: release_stock returned (its result is not looked at);
\* after the last one, process re-raises
handle_error_return(o) ==
    /\ orch[o].pc = "handle_error"
    /\ frame[o].fn = "release_stock"
    /\ frame[o].pc = "returned"
    /\ SetFrame(o, NoFrame)
    /\ orch' = [orch EXCEPT ![o] =
                  [@ EXCEPT !.idx = @ + 1,
                            !.pc = IF orch[o].idx =
                                      Len(reservations_to_release(orch[o].reservations))
                                   THEN "failed" ELSE "handle_error"]]
    /\ UNCHANGED <<ledger_vars, orders, api_vars>>

\* ---------------------------------------------------------------------
\* process_checkout
\* ---------------------------------------------------------------------
CheckoutTasks == {2}

\* the locals of process_checkout; local_reservations is the list that
\* _validate_and_reserve_products builds and returns at its end, and
\* release_calls the reservation ids that release_stock was called with,
\* charged the amount argument of the process_payment call (0: no call yet)
NoCheckout ==
    [pc |-> "init", user_id |-> "", items |-> <<>>, idx |-> 0,
     local_reservations |-> <<>>, reservations |-> <<>>, total_amount |-> 0,
     retry_count |-> 0, payment_result |-> NoPayment, order_id |-> 0,
     email_result |-> "none", error |-> "", failed_at |-> "", raised |-> "",
     release_calls |-> <<>>, charged |-> 0]

\* transaction_id = f"checkout_{uuid4().hex[:12]}"
checkout_transaction_id(k) == "checkout_task"

\* the exceptions the first two except clauses of process_checkout name,
\* with their subclasses: these are re-raised as they are
ReraisedErrors ==
    {"ValidationError", "InsufficientStockError", "PaymentError",
     "PaymentGatewayError", "InsufficientFundsError", "InvalidCardError"}

\* lines 376-413: what the caller of process_checkout gets
raised_error(error) ==
    IF error \in ReraisedErrors THEN error ELSE "CheckoutProcessingError"

\* an exception in the try block: the except clause that matches it
\* releases what the local variable reservations holds, then raises
CheckoutRaised(c, error, step) ==
    [c EXCEPT !.error = error, !.failed_at = step, !.idx = 1,
              !.raised = raised_error(error),
              !.pc = IF c.reservations = <<>> THEN "failed" ELSE "release"]

\* _validate_checkout_request and the user lookup (lines 231-242); what the
\* email, address and card validators say is the input validators_ok
validate_checkout_request(validators_ok, user_id, items) ==
    IF ~validators_ok THEN "ValidationError"
    ELSE IF items = <<>> THEN "ValidationError"
    ELSE IF \E i \in DOMAIN items : items[i].quantity <= 0 THEN "ValidationError"
    ELSE IF user_id \notin users THEN "ValidationError"
    ELSE "ok"

RECURSIVE subtotal(_, _)
\* sum(item.total_price for item in order_items), in cents
subtotal(items, n) ==
    IF n = 0 THEN 0
    ELSE subtotal(items, n - 1) + items[n].quantity * price[items[n].product_id]

\* process_checkout that charges the subtotal
total_amount_of_without_tax(items) == subtotal(items, Len(items))

\* lines 257-259
total_amount_of(items) ==
    subtotal(items, Len(items)) + (subtotal(items, Len(items)) * TAX_RATE) \div 100

checkout_start(k, validators_ok, user_id, items) ==
    LET v == validate_checkout_request(validators_ok, user_id, items)
        c == [checkout[k] EXCEPT !.user_id = user_id, !.items = items]
    IN
    /\ checkout[k].pc = "init"
    /\ checkout' = [checkout EXCEPT ![k] =
                       IF v # "ok" THEN CheckoutRaised(c, v, "validate")
                       ELSE [c EXCEPT !.pc = "reserve", !.idx = 1]]
    /\ UNCHANGED <<ledger_vars, frame, saga_vars, payment, store_call>>

\* _validate_and_reserve_products, lines 477-502: the next item up to the
\* call of reserve_stock
checkout_reserve_call(k) ==
    LET c == checkout[k]
        item == c.items[c.idx]
        entry == reserve_stock_entry(item.product_id, item.quantity)
    IN
    /\ c.pc = "reserve"
    /\ frame[k].pc = "idle"
    /\ c.idx <= Len(c.items)
    /\ IF item.product_id \notin products
       THEN /\ checkout' = [checkout EXCEPT ![k] =
                               CheckoutRaised(c, "ValidationError", "reserve")]
            /\ UNCHANGED frame
       ELSE IF get_available_stock(item.product_id) < item.quantity
       THEN /\ checkout' = [checkout EXCEPT ![k] =
                               CheckoutRaised(c, "InsufficientStockError", "reserve")]
            /\ UNCHANGED frame
       ELSE IF entry # "wait_lock"
       THEN /\ checkout' = [checkout EXCEPT ![k] = CheckoutRaised(c, entry, "reserve")]
            /\ UNCHANGED frame
       ELSE /\ SetFrame(k, [NoFrame EXCEPT
                              !.fn = "reserve_stock", !.pc = "wait_lock",
                              !.product_id = item.product_id,
                              !.quantity = item.quantity,
                              !.order_id = checkout_transaction_id(k)])
            /\ UNCHANGED checkout
    /\ UNCHANGED <<ledger_vars, saga_vars, payment, store_call>>

\* _validate_and_reserve_products, lines 498-512: reserve_stock returned or
\* raised
checkout_reserve_return(k) ==
    LET c == checkout[k] IN
    /\ c.pc = "reserve"
    /\ frame[k].fn = "reserve_stock"
    /\ frame[k].pc = "returned"
    /\ SetFrame(k, NoFrame)
    /\ checkout' = [checkout EXCEPT ![k] =
                       IF frame[k].ret = "ok"
                       THEN [c EXCEPT !.local_reservations =
                                          Append(@, frame[k].reservation_id),
                                      !.idx = @ + 1]
                       ELSE CheckoutRaised(c, frame[k].ret, "reserve")]
    /\ UNCHANGED <<ledger_vars, saga_vars, payment, store_call>>

\* _validate_and_reserve_products that returns after its first item
loop_ended_after_first(idx, items) == idx > 1

\* line 477: the for loop over the items has ended
loop_ended(idx, items) == idx > Len(items)

\* lines 248-266: _validate_and_reserve_products returns, the totals are
\* computed and checked against the order amount limits
checkout_totals(k) ==
    LET c == [checkout[k] EXCEPT !.reservations = checkout[k].local_reservations,
                                 !.total_amount = total_amount_of(checkout[k].items)]
    IN
    /\ checkout[k].pc = "reserve"
    /\ frame[k].pc = "idle"
    /\ loop_ended(checkout[k].idx, checkout[k].items)
    /\ checkout' = [checkout EXCEPT ![k] =
                       IF c.total_amount < MIN_ORDER_AMOUNT * Cents
                       THEN CheckoutRaised(c, "ValidationError", "totals")
                       ELSE IF c.total_amount > MAX_ORDER_AMOUNT * Cents
                       THEN CheckoutRaised(c, "ValidationError", "totals")
                       ELSE [c EXCEPT !.pc = "payment"]]
    /\ UNCHANGED <<ledger_vars, frame, saga_vars, payment, store_call>>

\* lines 282-298: one gateway attempt of the process_payment call.  The
\* amount passed the limits of checkout_totals, so its whole dollars decide
\* the amount checks of process_payment as the amount itself would.
checkout_payment_step(k, card_data, gateway_response) ==
    LET c == [checkout[k] EXCEPT !.charged = checkout[k].total_amount]
        r == process_payment_attempt(c.total_amount \div Cents, card_data,
                                     c.retry_count, gateway_response)
    IN
    /\ checkout[k].pc = "payment"
    /\ c.retry_count > 0 => card_data = RequiredCardFields
    /\ checkout' = [checkout EXCEPT ![k] =
                       IF r = "retry" THEN [c EXCEPT !.retry_count = @ + 1]
                       ELSE IF r = "completed"
                       THEN [c EXCEPT !.pc = "create_order", !.retry_count = 0,
                                      !.payment_result =
                                          [status |-> "completed",
                                           transaction_id |->
                                               transaction_id_of(k, c.retry_count)]]
                       ELSE CheckoutRaised([c EXCEPT !.retry_count = 0], r, "payment")]
    /\ UNCHANGED <<ledger_vars, frame, saga_vars, payment, store_call>>

\* _create_order, lines 517-541, and save_order; the database lock is
\* taken and is free again when save_order returns
checkout_create_order(k) ==
    LET c == checkout[k]
        keys == {"user_id", "products", "total_amount", "payment_status",
                 "shipping_address", "payment_transaction_id"}
        order_id == Len(orders) + 1
    IN
    /\ c.pc = "create_order"
    /\ IF save_order_entry(keys, c.total_amount) = "ok"
       THEN /\ db_lock = 0
            /\ orders' = Append(orders,
                           [order_id |-> order_id, user_id |-> c.user_id,
                            total_amount |-> c.total_amount,
                            payment_transaction_id |-> c.payment_result.transaction_id,
                            payment_status |-> "completed",
                            status |-> "pending"])
            /\ checkout' = [checkout EXCEPT ![k] =
                              [c EXCEPT !.order_id = order_id, !.idx = 1,
                                        !.pc = "confirm"]]
       ELSE /\ checkout' = [checkout EXCEPT ![k] =
                              CheckoutRaised(c, save_order_entry(keys, c.total_amount),
                                             "create_order")]
            /\ UNCHANGED orders
    /\ UNCHANGED <<ledger_vars, frame, orch, payment, store_call>>

\* lines 316-317: the call of confirm_reservation for the next reservation
checkout_confirm_call(k) ==
    /\ checkout[k].pc = "confirm"
    /\ frame[k].pc = "idle"
    /\ checkout[k].idx <= Len(checkout[k].reservations)
    /\ SetFrame(k, [NoFrame EXCEPT
                      !.fn = "confirm_reservation", !.pc = "wait_lock",
                      !.reservation_id = checkout[k].reservations[checkout[k].idx]])
    /\ UNCHANGED <<ledger_vars, saga_vars, api_vars>>

\* lines 316-317: confirm_reservation returned or raised
checkout_confirm_return(k) ==
    LET c == checkout[k] IN
    /\ c.pc = "confirm"
    /\ frame[k].fn = "confirm_reservation"
    /\ frame[k].pc = "returned"
    /\ SetFrame(k, NoFrame)
    /\ checkout' = [checkout EXCEPT ![k] =
                       IF frame[k].ret = "True"
                       THEN [c EXCEPT !.idx = @ + 1,
                                      !.pc = IF c.idx = Len(c.reservations)
                                             THEN "email" ELSE "confirm"]
                       ELSE CheckoutRaised(c, "InventoryError", "confirm")]
    /\ UNCHANGED <<ledger_vars, saga_vars, payment, store_call>>

\* process_checkout without the except EmailError clause
after_email_propagates(email_result) ==
    IF email_result = "EmailError" THEN "EmailError" ELSE "ok"

\* lines 347-353: an EmailError is logged as a warning and goes no further
after_email(email_result) == "ok"

\* lines 329-374: send_order_confirmation, then the success response
checkout_email(k, email_result) ==
    LET c == [checkout[k] EXCEPT !.email_result = email_result] IN
    /\ checkout[k].pc = "email"
    /\ checkout' = [checkout EXCEPT ![k] =
                       IF after_email(email_result) = "ok"
                       THEN [c EXCEPT !.pc = "success"]
                       ELSE CheckoutRaised(c, after_email(email_result), "email")]
    /\ UNCHANGED <<ledger_vars, frame, saga_vars, payment, store_call>>

\* _release_all_reservations: the call of release_stock
checkout_release_call(k) ==
    /\ checkout[k].pc = "release"
    /\ frame[k].pc = "idle"
    /\ SetFrame(k, [NoFrame EXCEPT
                      !.fn = "release_stock", !.pc = "wait_lock",
                      !.reservation_id = checkout[k].reservations[checkout[k].idx]])
    /\ checkout' = [checkout EXCEPT ![k].release_calls =
                       Append(@, checkout[k].reservations[checkout[k].idx])]
    /\ UNCHANGED <<ledger_vars, saga_vars, payment, store_call>>

\* _release_all_reservations: release_stock returned; after the last one
\* the except clause raises
checkout_release_return(k) ==
    LET c == checkout[k] IN
    /\ c.pc = "release"
    /\ frame[k].fn = "release_stock"
    /\ frame[k].pc = "returned"
    /\ SetFrame(k, NoFrame)
    /\ checkout' = [checkout EXCEPT ![k] =
                       [c EXCEPT !.idx = @ + 1,
                                 !.pc = IF c.idx = Len(c.reservations)
                                        THEN "failed" ELSE "release"]]
    /\ UNCHANGED <<ledger_vars, saga_vars, payment, store_call>>

\* ---------------------------------------------------------------------
\* Specification of the ledger under direct calls
\* ---------------------------------------------------------------------
Init ==
    /\ reservations = <<>>
    /\ reservation_lock = 0
    /\ db_lock = 0
    /\ initial_inventory \in [products -> InitialInventory]
    /\ inventory = initial_inventory
    /\ frame = [c \in Callers \cup Processors |-> NoFrame]
    /\ orders = <<>>
    /\ orch = [o \in Processors |-> NoOrch]
    /\ payment = NoPaymentCall
    /\ checkout = [k \in CheckoutTasks |-> NoCheckout]
    /\ store_call = NoStoreCall

LedgerStep ==
    \/ \E t \in DOMAIN frame : lock_acquire(t)
    \/ \E t \in DOMAIN frame : reserve_stock_cs(t)
    \/ \E t \in DOMAIN frame : confirm_reservation_cs(t)
    \/ \E t \in DOMAIN frame : release_stock_cs(t)
    \/ \E t \in DOMAIN frame : expire(t)

Next ==
    \/ \E c \in Callers, p \in ProductIds, q \in Quantities, o \in OrderIds :
          call_reserve_stock(c, p, q, o)
    \/ \E c \in Callers, rid \in 0..Len(reservations) : call_confirm_reservation(c, rid)
    \/ \E c \in Callers, rid \in 0..Len(reservations) : call_release_stock(c, rid)
    \/ LedgerStep

Spec == Init /\ [][Next]_vars

\* ---------------------------------------------------------------------
\* Specification of the orchestrations: every processor task runs
\* OrderProcessor.process once, the expiry tasks run, and a client task
\* may release any reservation by its id
\* ---------------------------------------------------------------------
SagaClients == {1}

ProcessorStep(o) ==
    \/ \E user_id \in UserIds, keys \in ValidatedKeySets, total_amount \in Amounts :
          process_start(o, user_id, keys, total_amount)
    \/ \E p \in ProductIds, q \in ItemQuantities : reserve_inventory_call(o, p, q)
    \/ reserve_inventory_return(o)
    \/ reserve_inventory_done(o)
    \/ \E keys \in OptionalKeySets, g \in GatewayResponses :
          process_payment_step(o, ValidatedKeys \cup keys, g)
    \/ \E keys \in OptionalKeySets : create_order(o, ValidatedKeys \cup keys)
    \/ save_order_write(o)
    \/ confirm_reservations_call(o)
    \/ confirm_reservations_return(o)
    \/ handle_error_call(o)
    \/ handle_error_return(o)

SagaNext ==
    \/ \E o \in Processors : ProcessorStep(o)
    \/ \E c \in SagaClients, rid \in 1..Len(reservations) : call_release_stock(c, rid)
    \/ LedgerStep

SagaSpec == Init /\ [][SagaNext]_vars

\* ---------------------------------------------------------------------
\* Specification of one direct call of process_payment
\* ---------------------------------------------------------------------
PaymentNext ==
    \/ \E amount \in PaymentAmounts, card_data \in CardDataSets :
          call_process_payment(amount, card_data)
    \/ \E g \in GatewayResponses : gateway_return(g)
    \/ backoff_end

PaymentSpec == Init /\ [][PaymentNext]_vars

\* ---------------------------------------------------------------------
\* Specification of process_checkout: the checkout task runs it once, the
\* expiry tasks run, and a client task may release any reservation by its id
\* ---------------------------------------------------------------------
\* the item lists of the requests
CheckoutItemLists ==
    UNION {[1..n -> CheckoutItems] : n \in 0..MaxItems}

CheckoutStep(k) ==
    \/ \E validators_ok \in BOOLEAN, user_id \in UserIds, items \in CheckoutItemLists :
          checkout_start(k, validators_ok, user_id, items)
    \/ checkout_reserve_call(k)
    \/ checkout_reserve_return(k)
    \/ checkout_totals(k)
    \/ \E card_data \in CardDataSets, g \in GatewayResponses :
          checkout_payment_step(k, card_data, g)
    \/ checkout_create_order(k)
    \/ checkout_confirm_call(k)
    \/ checkout_confirm_return(k)
    \/ \E email_result \in EmailResults : checkout_email(k, email_result)
    \/ checkout_release_call(k)
    \/ checkout_release_return(k)

CheckoutNext ==
    \/ \E k \in CheckoutTasks : CheckoutStep(k)
    \/ \E c \in SagaClients, rid \in 1..Len(reservations) : call_release_stock(c, rid)
    \/ LedgerStep

CheckoutSpec == Init /\ [][CheckoutNext]_vars

\* ---------------------------------------------------------------------
\* Specification of the order store under direct calls
\* ---------------------------------------------------------------------
StoreNext ==
    \/ \E keys \in SaveOrderKeySets, total_amount \in SaveOrderAmounts :
          call_save_order(keys, total_amount)
    \/ \E order_id \in 0..MaxOrders, status \in Statuses :
          call_update_order_status(order_id, status)

StoreSpec == Init /\ [][StoreNext]_vars

\* ---------------------------------------------------------------------
\* Specification of the stock checks: one client calls the ledger, the
\* other asks for the availability, directly and through the cart
\* ---------------------------------------------------------------------
LedgerClient == 1

CheckClient == 2

AvailabilityNext ==
    \/ \E p \in ProductIds, q \in Quantities, o \in OrderIds :
          call_reserve_stock(LedgerClient, p, q, o)
    \/ \E rid \in 1..Len(reservations) : call_confirm_reservation(LedgerClient, rid)
    \/ \E rid \in 1..Len(reservations) : call_release_stock(LedgerClient, rid)
    \/ \E p \in ProductIds, q \in CheckQuantities :
          call_check_stock_availability(CheckClient, p, q)
    \/ check_stock_availability_return(CheckClient)
    \/ \E p \in ProductIds, q \in CheckQuantities :
          call_check_stock(CheckClient, p, q)
    \/ check_stock_return(CheckClient)
    \/ LedgerStep

AvailabilitySpec == Init /\ [][AvailabilityNext]_vars

\* ---------------------------------------------------------------------
\* Specification of an orchestration among the calls of another one: a
\* processor task runs OrderProcessor.process while a client task makes
\* the ledger and store calls of an order of its own
\* ---------------------------------------------------------------------
OtherClient == 1

\* the order_id of the reservations of the other order
OtherOrderId == "order_other"

\* the quantities the other order reserves, in its one reserve_stock call
OtherQuantities == {40}

\* the reservations of the other order
OtherReservations ==
    {r \in DOMAIN reservations : reservations[r].order_id = OtherOrderId}

\* what the gateway answers to the charges of the processor
ConcurrentGatewayResponses ==
    {[status |-> "success", error_code |-> ""],
     [status |-> "insufficient_funds", error_code |-> ""],
     [status |-> "error", error_code |-> "service_unavailable"]}

\* OrderProcessor.process for an order of user_123 with items of prod_1
ConcurrentProcessorStep(o) ==
    \/ process_start(o, "user_123", ValidatedKeys, 97)
    \/ \E q \in OtherQuantities : reserve_inventory_call(o, "prod_1", q)
    \/ reserve_inventory_return(o)
    \/ reserve_inventory_done(o)
    \/ \E g \in ConcurrentGatewayResponses :
          process_payment_step(o, ValidatedKeys \cup {"payment_details"}, g)
    \/ \E keys \in OptionalKeySets : create_order(o, ValidatedKeys \cup keys)
    \/ save_order_write(o)
    \/ confirm_reservations_call(o)
    \/ confirm_reservations_return(o)
    \/ handle_error_call(o)
    \/ handle_error_return(o)

ConcurrentNext ==
    \/ \E o \in Processors : ConcurrentProcessorStep(o)
    \/ \E q \in OtherQuantities :
          /\ OtherReservations = {}
          /\ call_reserve_stock(OtherClient, "prod_1", q, OtherOrderId)
    \/ \E rid \in OtherReservations : call_confirm_reservation(OtherClient, rid)
    \/ \E rid \in OtherReservations : call_release_stock(OtherClient, rid)
    \/ /\ store_call.fn = "none"
       /\ call_save_order(RequiredOrderFields, 97)
    \/ LedgerStep

ConcurrentSpec == Init /\ [][ConcurrentNext]_vars

\* ---------------------------------------------------------------------
\* Specification of create_order_from_cart: a processor task creates an
\* order from a cart while a client task calls the ledger
\* ---------------------------------------------------------------------
CartItemLists ==
    UNION {[1..n -> CartItems] : n \in 1..MaxItems}

CartNext ==
    \/ \E o \in Processors, user_id \in UserIds, cart_items \in CartItemLists :
          create_order_from_cart(o, user_id, cart_items)
    \/ \E p \in ProductIds, q \in Quantities, oid \in OrderIds :
          call_reserve_stock(LedgerClient, p, q, oid)
    \/ \E rid \in 1..Len(reservations) : call_confirm_reservation(LedgerClient, rid)
    \/ \E rid \in 1..Len(reservations) : call_release_stock(LedgerClient, rid)
    \/ LedgerStep

CartSpec == Init /\ [][CartNext]_vars

\* The event loop runs every task that is ready, a sleep ends, and
\* asyncio.Lock wakes its waiters in FIFO order, so a waiter whose lock is
\* released again and again gets it.  Nothing obliges a client to call.
Tasks == Callers \cup {ExpiryTask(r) : r \in 1..MaxReservations}

CriticalSection(t) ==
    /\ t \in DOMAIN frame
    /\ \/ reserve_stock_cs(t)
       \/ confirm_reservation_cs(t)
       \/ release_stock_cs(t)

LockStep(t) ==
    /\ t \in DOMAIN frame
    /\ \/ lock_acquire(t)
       \/ expire(t)

FairSpec ==
    /\ Spec
    /\ \A t \in Tasks : WF_vars(CriticalSection(t)) /\ SF_vars(LockStep(t))

\* ---------------------------------------------------------------------
\* C1: for every product of the catalog, in every reachable state, the
\* available stock equals total_stock minus the quantities of the active
\* reservations of the product, and is never negative.
\* ---------------------------------------------------------------------
C1_AvailableStock ==
    \A p \in products :
        /\ get_available_stock(p) = total_stock - reserved_quantity(p)
        /\ get_available_stock(p) >= 0

\* a reservation was released, another is active, and a third request was
\* turned down for lack of stock
C1_Witness ==
    /\ \E r \in DOMAIN reservations : reservations[r].status = "released"
    /\ \E r \in DOMAIN reservations : reservations[r].status = "active"
    /\ \E c \in Callers : frame[c].ret = "InsufficientStockError"

\* ---------------------------------------------------------------------
\* C2: two reserve calls on one product, each asking for no more than the
\* available stock and together for more than it, end with exactly one
\* success and one InsufficientStockError, whatever the interleaving.
\* Stated for the two calls that are the only ones to have touched the
\* ledger, so that the available stock they found is total_stock.
\* ---------------------------------------------------------------------
ReserveReturned(c) ==
    /\ frame[c].fn = "reserve_stock"
    /\ frame[c].pc = "returned"
    /\ frame[c].product_id \in products

OnlyCallsSoFar(c1, c2) ==
    DOMAIN reservations =
        {frame[c].reservation_id : c \in {c1, c2}} \ {0}

C2_ExactlyOneReserveSucceeds ==
    \A c1, c2 \in Callers :
        ( /\ c1 # c2
          /\ ReserveReturned(c1) /\ ReserveReturned(c2)
          /\ frame[c1].product_id = frame[c2].product_id
          /\ OnlyCallsSoFar(c1, c2)
          /\ frame[c1].quantity <= total_stock
          /\ frame[c2].quantity <= total_stock
          /\ frame[c1].quantity + frame[c2].quantity > total_stock )
        => \/ frame[c1].ret = "ok" /\ frame[c2].ret = "InsufficientStockError"
           \/ frame[c2].ret = "ok" /\ frame[c1].ret = "InsufficientStockError"

\* ---------------------------------------------------------------------
\* C5: a reservation that its expiry task finds active is eventually
\* released (status released, quantity back in the inventory).
\* ---------------------------------------------------------------------
\* the expiry task of r found r active and is inside its release_stock call
ExpiryFoundActive(r) ==
    /\ ExpiryTask(r) \in DOMAIN frame
    /\ frame[ExpiryTask(r)].fn = "release_stock"

Released(r) ==
    /\ r \in DOMAIN reservations
    /\ reservations[r].status = "released"

C5_ExpiryReleases ==
    \A r \in 1..MaxReservations : ExpiryFoundActive(r) ~> Released(r)

\* ---------------------------------------------------------------------
\* C6: confirm and expiry racing for an active reservation.  If confirm
\* enters the critical section first the reservation stays confirmed and
\* the expiry task changes neither a status nor the inventory; if the
\* expiry task enters first the reservation ends released and the confirm
\* call fails with the already-finalized error.
\* ---------------------------------------------------------------------
ConfirmWaiting(c, r) ==
    /\ frame[c].fn = "confirm_reservation"
    /\ frame[c].pc = "wait_lock"
    /\ frame[c].reservation_id = r

C6_ConfirmFirst ==
    [][ \A r \in DOMAIN reservations :
          reservations[r].status = "confirmed"
          => /\ reservations'[r].status = "confirmed"
             /\ ( /\ ExpiryTask(r) \in DOMAIN frame
                   /\ frame'[ExpiryTask(r)] # frame[ExpiryTask(r)]
                 => UNCHANGED <<reservations, inventory>> ) ]_vars

C6_ExpiryFirst ==
    \A r \in 1..MaxReservations : \A c \in Callers :
        (ExpiryFoundActive(r) /\ ConfirmWaiting(c, r))
        ~> (Released(r) /\ frame[c].ret = "InventoryError:already")

C6_ConfirmExpiryRace == C6_ConfirmFirst /\ C6_ExpiryFirst

\* ---------------------------------------------------------------------
\* Vocabulary of the claims about OrderProcessor.process
\* ---------------------------------------------------------------------
\* the transaction ids the process_payment calls of processor o can draw
TransactionIdsOf(o) == {transaction_id_of(o, n) : n \in 0..MAX_PAYMENT_RETRIES}

\* the orders stored for the attempt of processor o
OrdersOf(o) ==
    {i \in DOMAIN orders : orders[i].payment_transaction_id \in TransactionIdsOf(o)}

\* the reservation records created by reserve_stock calls of processor o
RecordsOf(o) ==
    {r \in DOMAIN reservations :
        reservations[r].order_id = order_id_of(orch[o].user_id)}

AllReservations(o, status) ==
    \A i \in 1..Len(orch[o].reservations) :
        reservations[orch[o].reservations[i]].status = status

RECURSIVE HeldQuantity(_, _)
\* what reserve_stock took out of the inventory of a product for the first n
\* records and release_stock has not put back
HeldQuantity(n, product_id) ==
    IF n = 0 THEN 0
    ELSE HeldQuantity(n - 1, product_id)
         + (IF /\ reservations[n].product_id = product_id
               /\ reservations[n].status \in {"active", "confirmed"}
               /\ ExpiryTask(n) \in DOMAIN frame
            THEN reservations[n].quantity ELSE 0)

StockRestored ==
    \A p \in products :
        inventory[p] = initial_inventory[p] - HeldQuantity(Len(reservations), p)

\* ---------------------------------------------------------------------
\* C3: when the charge fails after k >= 1 items were reserved, then once
\* process has re-raised, all k reservations are released, their quantity
\* is back in the inventory, and the store has no order for the attempt.
\* ---------------------------------------------------------------------
C3_ChargeFailureCompensated ==
    \A o \in Processors :
        ( /\ orch[o].pc = "failed"
          /\ orch[o].failed_at = "payment"
          /\ Len(orch[o].reservations) >= 1 )
        => /\ AllReservations(o, "released")
           /\ StockRestored
           /\ OrdersOf(o) = {}
           /\ orch[o].order_id = 0

\* the gateway refused the charge of an order with two reserved items
C3_Witness ==
    \E o \in Processors :
        /\ orch[o].pc = "failed"
        /\ orch[o].failed_at = "payment"
        /\ orch[o].error = "InsufficientFundsError"
        /\ Len(orch[o].reservations) = 2

\* ---------------------------------------------------------------------
\* C4: when reserving an item fails, then once process has re-raised, the
\* reservations of the earlier items are released, no order exists, and no
\* reservation record created by the orchestration, the failing item's
\* included, is active.
\* ---------------------------------------------------------------------
C4_ReserveFailureLeavesNothingActive ==
    \A o \in Processors :
        ( orch[o].pc = "failed" /\ orch[o].failed_at = "reserve" )
        => /\ AllReservations(o, "released")
           /\ OrdersOf(o) = {}
           /\ \A r \in RecordsOf(o) : reservations[r].status # "active"

\* ---------------------------------------------------------------------
\* C7: once save_order has succeeded the orchestration does not fail: it
\* is confirming or has returned success, and runs no compensation.
\* ---------------------------------------------------------------------
C7_NoFailureAfterCommit ==
    \A o \in Processors :
        orch[o].order_id # 0 => orch[o].pc \in {"confirm", "success"}

\* ---------------------------------------------------------------------
\* C8: when save_order fails after the charge succeeded, all reservations
\* are released and the error the caller gets is of a kind that no
\* validation, reservation or payment failure produces.
\* ---------------------------------------------------------------------
ValidationErrorKinds ==
    {validate_order(u, k, a) : u \in UserIds, k \in ValidatedKeySets, a \in Amounts}

ResourceErrorKinds ==
    {reserve_stock_entry(p, q) : p \in ProductIds, q \in ItemQuantities}
    \cup {"InsufficientStockError", "RuntimeError"}

PaymentErrorKinds ==
    {process_payment_attempt(a, RequiredCardFields, n, g) :
        a \in Amounts, n \in 0..MAX_PAYMENT_RETRIES, g \in GatewayResponses}
    \cup {"KeyError"}

C8_CommitErrorIsDistinct ==
    \A o \in Processors :
        ( orch[o].pc = "failed" /\ orch[o].failed_at = "create_order" )
        => /\ AllReservations(o, "released")
           /\ orch[o].error \notin
                 ValidationErrorKinds \cup ResourceErrorKinds \cup PaymentErrorKinds

\* ---------------------------------------------------------------------
\* C9: an orchestration whose request passed validation, whose items were
\* all reserved and whose charge was accepted ends with success: an
\* order_id and a transaction id are returned, exactly one order of the
\* attempt is stored, and every reservation is confirmed.
\* ---------------------------------------------------------------------
C9_AcceptedChargeEndsInDone ==
    \A o \in Processors :
        ( /\ orch[o].pc \in {"success", "failed"}
          /\ orch[o].payment_result.status = "completed" )
        => /\ orch[o].pc = "success"
           /\ orch[o].order_id \in OrdersOf(o)
           /\ Cardinality(OrdersOf(o)) = 1
           /\ AllReservations(o, "confirmed")

\* ---------------------------------------------------------------------
\* C10: an orchestration that ended with an error left no order in the
\* store and none of its reservations confirmed.
\* ---------------------------------------------------------------------
C10_ErrorMeansNoPartialOrder ==
    \A o \in Processors :
        orch[o].pc = "failed"
        => /\ orch[o].order_id = 0
           /\ OrdersOf(o) = {}
           /\ \A i \in 1..Len(orch[o].reservations) :
                 reservations[orch[o].reservations[i]].status # "confirmed"

\* ---------------------------------------------------------------------
\* C11: two release_stock calls on the same reservation id change the
\* ledger once, the second raises nothing, changes nothing and returns
\* what the first returned.
\* ---------------------------------------------------------------------
ReleaseReturned(c, r) ==
    /\ frame[c].fn = "release_stock"
    /\ frame[c].pc = "returned"
    /\ frame[c].reservation_id = r

\* a release_stock call that finds the reservation released changes neither
\* the table nor the inventory
C11_SecondReleaseChangesNothing ==
    [][ \A t \in DOMAIN frame :
          ( /\ release_stock_cs(t)
            /\ Released(frame[t].reservation_id) )
          => UNCHANGED <<reservations, inventory>> ]_vars

\* the two calls of C11 return the same value
C11_ReleaseTwiceSameOutcome ==
    \A c1, c2 \in Callers : \A r \in DOMAIN reservations :
        (ReleaseReturned(c1, r) /\ ReleaseReturned(c2, r))
        => frame[c1].ret = frame[c2].ret

\* ---------------------------------------------------------------------
\* Vocabulary of the claims about process_payment
\* ---------------------------------------------------------------------
TransientFailure(gateway_response) ==
    \/ gateway_response.status = "timeout"
    \/ /\ gateway_response.status = "error"
       /\ gateway_response.error_code \in
             {"gateway_timeout", "service_unavailable", "rate_limit_exceeded",
              "network_error"}

PaymentEnded == payment.pc \in {"returned", "raised"}

\* ---------------------------------------------------------------------
\* C12: process_payment never makes more than MAX_PAYMENT_RETRIES + 1
\* gateway calls, and when every call met a transient failure it makes
\* exactly that many and raises PaymentGatewayError.
\* ---------------------------------------------------------------------
C12_RetryBound ==
    /\ Len(payment.gateway_calls) <= MAX_PAYMENT_RETRIES + 1
    /\ ( /\ PaymentEnded
         /\ payment.gateway_calls # <<>>
         /\ \A i \in DOMAIN payment.gateway_calls :
               TransientFailure(payment.gateway_calls[i].response) )
       => /\ Len(payment.gateway_calls) = MAX_PAYMENT_RETRIES + 1
          /\ payment.result = "PaymentGatewayError"

\* the retries are used up, by timeouts and by retryable gateway errors
C12_Witness ==
    /\ payment.pc = "raised"
    /\ payment.result = "PaymentGatewayError"
    /\ Len(payment.gateway_calls) = MAX_PAYMENT_RETRIES + 1
    /\ payment.gateway_calls[1].response.status = "timeout"
    /\ payment.gateway_calls[2].response.status = "error"

\* ---------------------------------------------------------------------
\* C13: every attempt of one charge is logged with the transaction_id of
\* the first attempt, and the i-th attempt with attempt_number i.
\* ---------------------------------------------------------------------
C13_StableTransactionId ==
    \A i \in DOMAIN payment.log :
        /\ payment.log[i].transaction_id = payment.log[1].transaction_id
        /\ payment.log[i].attempt_number = i

\* the part of C13 about attempt_number alone
C13_AttemptNumbers ==
    \A i \in DOMAIN payment.log : payment.log[i].attempt_number = i

\* ---------------------------------------------------------------------
\* C14: a gateway answer of insufficient funds, of an invalid card, or an
\* error whose code is not retryable, is the last gateway call of the
\* charge, which raises the matching error at once.
\* ---------------------------------------------------------------------
TerminalFailure(gateway_response) ==
    /\ gateway_response.status \in {"insufficient_funds", "invalid_card", "error"}
    /\ ~TransientFailure(gateway_response)

TerminalErrorOf(gateway_response) ==
    IF gateway_response.status = "insufficient_funds" THEN "InsufficientFundsError"
    ELSE IF gateway_response.status = "invalid_card" THEN "InvalidCardError"
    ELSE "PaymentGatewayError"

C14_TerminalErrorsNeverRetry ==
    \A i \in DOMAIN payment.gateway_calls :
        TerminalFailure(payment.gateway_calls[i].response)
        => /\ i = Len(payment.gateway_calls)
           /\ payment.pc = "raised"
           /\ payment.result = TerminalErrorOf(payment.gateway_calls[i].response)

\* a declined card ends the charge at its second attempt, with retries left
C14_Witness ==
    /\ payment.pc = "raised"
    /\ Len(payment.gateway_calls) = 2
    /\ payment.gateway_calls[2].response.error_code = "card_declined"

\* ---------------------------------------------------------------------
\* C15: when process has returned success, the order it stored has status
\* completed.
\* ---------------------------------------------------------------------
C15_StoredOrderCompleted ==
    \A o \in Processors :
        orch[o].pc = "success" => orders[orch[o].order_id].status = "completed"

\* ---------------------------------------------------------------------
\* C16: the stock available for further reservations of a product is
\* total_stock less what is held by active reservations and less what
\* confirmed reservations took: a confirm gives nothing back.
\* ---------------------------------------------------------------------
C16_ConfirmedStockStaysTaken ==
    \A p \in products :
        get_available_stock(p) =
            total_stock - SumQuantity(Len(reservations), p, {"active", "confirmed"})

\* ---------------------------------------------------------------------
\* C17: a reserve_stock call that gets into its critical section either
\* returns a reservation, having added exactly one active record and taken
\* the quantity out of the inventory, or fails and leaves the reservation
\* table and the inventory as they were.
\* ---------------------------------------------------------------------
ReserveSucceeded(t) ==
    /\ frame'[t].ret = "ok"
    /\ Len(reservations') = Len(reservations) + 1
    /\ SubSeq(reservations', 1, Len(reservations)) = reservations
    /\ reservations'[Len(reservations')].status = "active"
    /\ inventory' = [inventory EXCEPT ![frame[t].product_id] = @ - frame[t].quantity]

ReserveFailed(t) ==
    /\ frame'[t].ret # "ok"
    /\ UNCHANGED <<reservations, inventory>>

C17_ReserveAllOrNothing ==
    [][ \A t \in DOMAIN frame :
          reserve_stock_cs(t) => ReserveSucceeded(t) \/ ReserveFailed(t) ]_vars

\* ---------------------------------------------------------------------
\* C19: a request whose item list is empty, or which has an item with a
\* quantity that is not positive, is rejected before any reservation is
\* made and before any charge is attempted: no orchestration gets to the
\* payment step without an item, and none that reserve_stock turns down
\* over a quantity has reserved an item before.
\* ---------------------------------------------------------------------
C19_BadItemsRejectedInValidation ==
    \A o \in Processors :
        /\ orch[o].pc = "payment" => orch[o].reservations # <<>>
        /\ (orch[o].failed_at = "reserve" /\ orch[o].error = "ValueError")
           => orch[o].reservations = <<>>

\* ---------------------------------------------------------------------
\* C18: a request that fails validation ends the orchestration with no
\* side effect: no reservation record exists, no charge was attempted, no
\* order is stored and no release is issued.
\* ---------------------------------------------------------------------
C18_ValidationFailureNoSideEffect ==
    \A k \in CheckoutTasks :
        checkout[k].error = "ValidationError"
        => /\ checkout[k].pc = "failed"
           /\ frame[k] = NoFrame
           /\ reservations = <<>>
           /\ checkout[k].payment_result = NoPayment
           /\ orders = <<>>

\* the same for OrderProcessor.process, whose validation is its first step
C18_ProcessorValidationNoSideEffect ==
    \A o \in Processors :
        orch[o].failed_at = "validate"
        => /\ orch[o].pc = "failed"
           /\ frame[o] = NoFrame
           /\ reservations = <<>>
           /\ orch[o].payment_result = NoPayment
           /\ orders = <<>>

\* ---------------------------------------------------------------------
\* C20: the error the caller of the orchestration receives is of the kind
\* of the error that the failing step raised.
\* ---------------------------------------------------------------------
C20_OriginalErrorReachesCaller ==
    \A k \in CheckoutTasks :
        checkout[k].pc = "failed" => checkout[k].raised = checkout[k].error

\* ---------------------------------------------------------------------
\* C22: the delay slept before retry number k of a charge (k = 0 for the
\* first retry) is 2^k seconds, so the delays of a charge never decrease.
\* ---------------------------------------------------------------------
C22_ExponentialBackoff ==
    \A i \in DOMAIN payment.backoffs :
        /\ payment.backoffs[i] = 2 ^ (i - 1)
        /\ i > 1 => payment.backoffs[i - 1] <= payment.backoffs[i]

\* a charge that slept before each of its three retries
C22_Witness == payment.backoffs = <<1, 2, 4>>

\* ---------------------------------------------------------------------
\* C23: at every attempt, a gateway call that times out and one that
\* comes back with a transient error lead to the same decision (retry or
\* PaymentGatewayError) and to the same backoff delay.
\* ---------------------------------------------------------------------
GatewayTimeout == [status |-> "timeout", error_code |-> ""]

Decision(p) == [pc |-> p.pc, result |-> p.result, backoffs |-> p.backoffs]

C23_TimeoutLikeTransientError ==
    payment.pc = "gateway"
    => \A g \in GatewayResponses :
          TransientFailure(g)
          => Decision(after_gateway(payment, g))
               = Decision(after_gateway(payment, GatewayTimeout))

\* the last allowed attempt of a charge that met a timeout and an error
C23_Witness ==
    /\ payment.pc = "gateway"
    /\ payment.retry_count = MAX_PAYMENT_RETRIES
    /\ payment.gateway_calls[1].response.status = "timeout"
    /\ payment.gateway_calls[2].response.status = "error"

\* ---------------------------------------------------------------------
\* C24: a charge whose amount is not positive or is above the ceiling, or
\* whose card data lacks a required field, raises ValueError or
\* InvalidCardError with no gateway call made, none logged and no retry.
\* ---------------------------------------------------------------------
InvalidChargeArguments ==
    \/ payment.amount <= 0
    \/ payment.amount > MaxPaymentAmount
    \/ RequiredCardFields \ payment.card_data # {}

C24_ValidationBeforeGateway ==
    (payment.pc # "idle" /\ InvalidChargeArguments)
    => /\ payment.pc = "raised"
       /\ payment.result \in {"ValueError", "InvalidCardError"}
       /\ payment.gateway_calls = <<>>
       /\ payment.log = <<>>
       /\ payment.backoffs = <<>>

\* a charge above the ceiling, with complete card data, was turned down
C24_Witness ==
    /\ payment.pc = "raised"
    /\ payment.amount > MaxPaymentAmount
    /\ payment.card_data = RequiredCardFields
    /\ payment.result = "ValueError"

\* ---------------------------------------------------------------------
\* C25: every gateway call of a charge has a log record with its
\* transaction_id, its attempt_number and the amount, and a log record
\* with its transaction_id that reports its outcome.
\* ---------------------------------------------------------------------
C25_EveryAttemptReported ==
    \A i \in DOMAIN payment.gateway_calls :
        /\ \E j \in DOMAIN payment.log :
              /\ payment.log[j].transaction_id = payment.gateway_calls[i].transaction_id
              /\ payment.log[j].attempt_number = i
              /\ payment.log[j].amount = payment.amount
        /\ \E j \in DOMAIN payment.outcome_log :
              payment.outcome_log[j].transaction_id =
                  payment.gateway_calls[i].transaction_id

\* ---------------------------------------------------------------------
\* C28: update_order_status on an order of the store succeeds for each of
\* the statuses pending, processing, completed, cancelled and refunded and
\* leaves the order with that status; on an order_id the store does not
\* hold it fails and leaves the store as it was.
\* ---------------------------------------------------------------------
SpecifiedStatuses == {"pending", "processing", "completed", "cancelled", "refunded"}

C28_SetStatusSucceeds ==
    (/\ store_call.fn = "update_order_status"
     /\ store_call.order_id \in DOMAIN orders
     /\ store_call.status \in SpecifiedStatuses)
    => /\ store_call.result = "True"
       /\ orders[store_call.order_id].status = store_call.status

\* C28, the part about an unknown order_id: the call fails with the
\* not-found error and no order of the store changes.
C28_UnknownOrderNotFound ==
    [][\A order_id \in 0..(MaxOrders + 1), status \in SpecifiedStatuses \cap valid_statuses :
          (call_update_order_status(order_id, status) /\ order_id \notin DOMAIN orders)
          => /\ store_call'.result = "ValueError:not_found"
             /\ orders' = orders]_vars

\* ---------------------------------------------------------------------
\* C29: save_order with a required field missing or a total_amount that
\* is not positive fails with the validation error and leaves the store
\* as it was; a save_order that succeeds adds exactly one order, whose
\* order_id no order of the store had and whose status is pending.
\* ---------------------------------------------------------------------
C29_AppendValidatesAndAddsOne ==
    [][\A keys \in SaveOrderKeySets, total_amount \in SaveOrderAmounts :
          call_save_order(keys, total_amount)
          => IF RequiredOrderFields \ keys # {} \/ total_amount <= 0
             THEN /\ store_call'.result = "ValueError"
                  /\ orders' = orders
             ELSE /\ store_call'.result = "ok"
                  /\ Len(orders') = Len(orders) + 1
                  /\ SubSeq(orders', 1, Len(orders)) = orders
                  /\ \A i \in DOMAIN orders :
                        orders[i].order_id # orders'[Len(orders')].order_id
                  /\ orders'[Len(orders')].order_id = store_call'.order_id
                  /\ orders'[Len(orders')].status = "pending"]_vars

\* a rejected save_order after one that was stored
C29_Witness ==
    /\ store_call.fn = "save_order"
    /\ store_call.result = "ValueError"
    /\ orders # <<>>

\* ---------------------------------------------------------------------
\* C26: confirm_reservation on a reservation_id the ledger does not hold
\* fails with the not-found error, and on a reservation that is confirmed
\* or released it fails with the already-finalized error; in both cases
\* no reservation and no stock count changes.
\* ---------------------------------------------------------------------
C26_ConfirmRejectsUnknownAndFinal ==
    [][\A t \in DOMAIN frame :
          confirm_reservation_cs(t)
          => LET rid == frame[t].reservation_id IN
             /\ rid \notin DOMAIN reservations
                => /\ frame'[t].ret = "InventoryError:not_found"
                   /\ UNCHANGED <<reservations, inventory>>
             /\ (/\ rid \in DOMAIN reservations
                 /\ reservations[rid].status \in {"confirmed", "released"})
                => /\ frame'[t].ret = "InventoryError:already"
                   /\ UNCHANGED <<reservations, inventory>>]_vars

\* one confirm was refused for a reservation that is final, another for
\* an id that is unknown
C26_Witness ==
    \E c1, c2 \in Callers :
        /\ frame[c1].fn = "confirm_reservation"
        /\ frame[c1].ret = "InventoryError:already"
        /\ frame[c2].fn = "confirm_reservation"
        /\ frame[c2].ret = "InventoryError:not_found"

\* ---------------------------------------------------------------------
\* C27: no step removes a reservation or changes anything of it but its
\* status; a status changes only from active to confirmed or from active
\* to released; and release_stock on a confirmed reservation leaves the
\* reservations and the stock as they were.
\* ---------------------------------------------------------------------
C27_StatusOnlyLeavesActive ==
    [][/\ Len(reservations') >= Len(reservations)
       /\ \A r \in DOMAIN reservations :
             /\ [reservations'[r] EXCEPT !.status = reservations[r].status]
                    = reservations[r]
             /\ \/ reservations'[r].status = reservations[r].status
                \/ /\ reservations[r].status = "active"
                   /\ reservations'[r].status \in {"confirmed", "released"}
       /\ \A t \in DOMAIN frame :
             (/\ release_stock_cs(t)
              /\ frame[t].reservation_id \in DOMAIN reservations
              /\ reservations[frame[t].reservation_id].status = "confirmed")
             => UNCHANGED <<reservations, inventory>>]_vars

\* a release of a confirmed reservation has returned
C27_Witness ==
    \E c \in Callers :
        /\ frame[c].fn = "release_stock"
        /\ frame[c].pc = "returned"
        /\ frame[c].ret = "False"
        /\ frame[c].reservation_id \in DOMAIN reservations
        /\ reservations[frame[c].reservation_id].status = "confirmed"

\* ---------------------------------------------------------------------
\* C21: when a checkout has failed, release_stock was called exactly once
\* for every reservation that the checkout made.
\* ---------------------------------------------------------------------
C21_EveryReservationReleasedOnce ==
    \A k \in CheckoutTasks :
        checkout[k].pc = "failed"
        => \A i \in DOMAIN checkout[k].local_reservations :
              Cardinality({j \in DOMAIN checkout[k].release_calls :
                              checkout[k].release_calls[j] =
                                  checkout[k].local_reservations[i]}) = 1

\* C21, the part about the loop: once _release_all_reservations has run,
\* release_stock was called exactly once for every reservation it was
\* given, whatever the calls returned.
C21_ReleaseLoopCoversItsList ==
    \A k \in CheckoutTasks :
        checkout[k].pc = "failed"
        => checkout[k].release_calls = checkout[k].reservations

\* ---------------------------------------------------------------------
\* C30: a checkout whose confirmation email failed still returns success:
\* its order is in the store, every reservation it made is confirmed and
\* release_stock was called for none of them.
\* ---------------------------------------------------------------------
C30_EmailFailureKeepsSuccess ==
    \A k \in CheckoutTasks :
        checkout[k].email_result = "EmailError"
        => /\ checkout[k].pc = "success"
           /\ checkout[k].order_id \in DOMAIN orders
           /\ checkout[k].release_calls = <<>>
           /\ \A i \in DOMAIN checkout[k].reservations :
                 reservations[checkout[k].reservations[i]].status = "confirmed"

\* a checkout with reservations has returned after its email failed
C30_Witness ==
    \E k \in CheckoutTasks :
        /\ checkout[k].email_result = "EmailError"
        /\ checkout[k].pc = "success"
        /\ checkout[k].reservations # <<>>

\* ---------------------------------------------------------------------
\* C31: check_stock_availability for a product of the catalog changes
\* no reservation, no stock counter, no lock and no order, and returns
\* (available >= quantity, available) where available is total_stock
\* minus the quantities of the product's active reservations.
\* ---------------------------------------------------------------------
RECURSIVE QuantityOf(_)
\* the quantities of a set of reservations, added up
QuantityOf(ids) ==
    IF ids = {} THEN 0
    ELSE LET r == CHOOSE r \in ids : TRUE IN
         reservations[r].quantity + QuantityOf(ids \ {r})

ActiveQuantity(p) ==
    QuantityOf({r \in DOMAIN reservations :
                   /\ reservations[r].product_id = p
                   /\ reservations[r].status = "active"})

C31_CheckAvailabilityReadOnly ==
    [][\A t \in Callers :
          (check_stock_availability_return(t) /\ frame[t].product_id \in products)
          => LET available == total_stock - ActiveQuantity(frame[t].product_id) IN
             /\ frame'[t].result = <<available >= frame[t].quantity, available>>
             /\ UNCHANGED <<reservations, reservation_lock, inventory,
                            initial_inventory, orders>>]_vars

\* the availability was refused while a reservation was active
C31_Witness ==
    \E c \in Callers :
        /\ frame[c].fn = "check_stock_availability"
        /\ frame[c].pc = "returned"
        /\ frame[c].result = <<FALSE, 30>>
        /\ \E r \in DOMAIN reservations : reservations[r].status = "active"

\* ---------------------------------------------------------------------
\* C40: for a product of the catalog, the stock check of the cart raises
\* InsufficientStockError exactly when check_stock_availability reported
\* the quantity as not available.
\* ---------------------------------------------------------------------
C40_CartRejectsUnavailableQuantity ==
    \A c \in Callers :
        (/\ frame[c].fn = "_check_stock"
         /\ frame[c].pc = "returned"
         /\ frame[c].product_id \in products)
        => (frame[c].ret = "InsufficientStockError" <=> frame[c].result[1] = FALSE)

\* ---------------------------------------------------------------------
\* C32: the ledger lock is never held forever, so every call of reserve,
\* confirm or release returns.  A task that holds the lock while it waits
\* for that same lock never takes another step and never unlocks, and
\* every task that waits for the lock then waits forever: no reachable
\* state has such a task.
\* ---------------------------------------------------------------------
C32_LockNeverHeldForever ==
    \A t \in DOMAIN frame :
        ~(reservation_lock = t /\ frame[t].pc = "wait_lock")

\* ---------------------------------------------------------------------
\* C33: for every product, the inventory quantity of the database equals
\* the initial quantity minus the quantities of the product's active and
\* confirmed reservations.
\* ---------------------------------------------------------------------
C33_InventoryMatchesReservations ==
    \A p \in products :
        inventory[p] =
            initial_inventory[p]
            - QuantityOf({r \in DOMAIN reservations :
                             /\ reservations[r].product_id = p
                             /\ reservations[r].status \in {"active", "confirmed"}})

\* ---------------------------------------------------------------------
\* C34: the quantity of a reservation is added back to the stock at most
\* once, and never for a confirmed reservation: a step that raises the
\* inventory of a product raises it by the quantity of one reservation
\* of the product, which was active and is released by that very step,
\* and a reservation that is confirmed or released keeps its status.
\* ---------------------------------------------------------------------
C34_StockRestoredAtMostOnce ==
    [][/\ \A p \in products :
             inventory'[p] > inventory[p]
             => \E r \in DOMAIN reservations :
                   /\ reservations[r].product_id = p
                   /\ reservations[r].status = "active"
                   /\ reservations'[r].status = "released"
                   /\ inventory'[p] = inventory[p] + reservations[r].quantity
                   /\ \A r2 \in DOMAIN reservations \ {r} :
                         reservations'[r2] = reservations[r2]
       /\ \A r \in DOMAIN reservations :
             reservations[r].status \in {"confirmed", "released"}
             => reservations'[r].status = reservations[r].status]_vars

\* two release calls for one reservation have returned: one restored the
\* stock, the other did nothing
C34_Witness ==
    \E c1, c2 \in Callers :
        /\ frame[c1].fn = "release_stock" /\ frame[c1].ret = "True"
        /\ frame[c2].fn = "release_stock" /\ frame[c2].ret = "False"
        /\ frame[c1].reservation_id = frame[c2].reservation_id
        /\ frame[c1].reservation_id \in DOMAIN reservations
        /\ reservations[frame[c1].reservation_id].status = "released"
        /\ inventory = initial_inventory

\* ---------------------------------------------------------------------
\* C35: within one checkout, the charge is attempted only when every
\* item of the request has its reservation, the order is in the store
\* only when the charge has completed, and a reservation of the checkout
\* is confirmed only when the order is in the store.
\* ---------------------------------------------------------------------
ChargeAttempted(c) ==
    \/ c.pc = "payment"
    \/ c.retry_count > 0
    \/ c.payment_result.status # "none"
    \/ c.failed_at = "payment"

EveryItemReserved(c) ==
    /\ Len(c.local_reservations) = Len(c.items)
    /\ \A i \in DOMAIN c.items :
          /\ c.local_reservations[i] \in DOMAIN reservations
          /\ reservations[c.local_reservations[i]].product_id = c.items[i].product_id
          /\ reservations[c.local_reservations[i]].quantity = c.items[i].quantity

OrderAppended(c) ==
    /\ c.order_id \in DOMAIN orders
    /\ orders[c.order_id].payment_transaction_id = c.payment_result.transaction_id

C35_StepsInOrder ==
    \A k \in CheckoutTasks :
        LET c == checkout[k] IN
        /\ ChargeAttempted(c) => EveryItemReserved(c)
        /\ orders # <<>> => (OrderAppended(c) /\ c.payment_result.status = "completed")
        /\ (\E i \in DOMAIN c.local_reservations :
               reservations[c.local_reservations[i]].status = "confirmed")
           => OrderAppended(c)

\* a checkout of two items has confirmed its first reservation
C35_Witness ==
    \E k \in CheckoutTasks :
        /\ Len(checkout[k].items) = 2
        /\ Len(checkout[k].local_reservations) = 2
        /\ reservations[checkout[k].local_reservations[1]].status = "confirmed"
        /\ OrderAppended(checkout[k])

\* C35 for OrderProcessor.process: once the charge is attempted no call of
\* reserve_stock is under way, the order is in the store only when the
\* charge has completed, and a reservation of the orchestration is
\* confirmed only when the order is in the store.
C35_ProcessStepsInOrder ==
    \A o \in Processors :
        /\ (\/ orch[o].pc = "payment"
            \/ orch[o].retry_count > 0
            \/ orch[o].payment_result.status # "none")
           => frame[o].fn # "reserve_stock"
        /\ orch[o].order_id # 0
           => /\ orch[o].order_id \in DOMAIN orders
              /\ orch[o].payment_result.status = "completed"
        /\ (\E i \in DOMAIN orch[o].reservations :
               reservations[orch[o].reservations[i]].status = "confirmed")
           => orch[o].order_id \in DOMAIN orders

\* ---------------------------------------------------------------------
\* C36: while an orchestration is in its payment step, between the
\* gateway attempts or in one, it holds neither the ledger lock nor the
\* database lock, and the other order's next step is possible: to take
\* the ledger lock when it is free, to finish its critical section, and
\* to save its order.
\* ---------------------------------------------------------------------
C36_PaymentWaitHoldsNoLock ==
    \A o \in Processors :
        orch[o].pc = "payment"
        => /\ reservation_lock # o
           /\ db_lock # o
           /\ (frame[OtherClient].pc = "wait_lock" /\ reservation_lock = 0)
              => ENABLED lock_acquire(OtherClient)
           /\ frame[OtherClient].pc = "in_cs"
              => ENABLED CriticalSection(OtherClient)
           /\ store_call.fn = "none"
              => ENABLED call_save_order(RequiredOrderFields, 97)

\* the orchestration, with a reservation of its own, is between two
\* gateway attempts while the other order is inside the ledger
C36_Witness ==
    \E o \in Processors :
        /\ orch[o].pc = "payment"
        /\ orch[o].retry_count > 0
        /\ orch[o].reservations # <<>>
        /\ frame[OtherClient].pc = "in_cs"
        /\ reservation_lock = OtherClient

\* ---------------------------------------------------------------------
\* C38: a release_stock call of the compensation of an orchestration
\* leaves every reservation of the other order as it was and adds to the
\* inventory nothing but the quantity of a reservation of its own.
\* ---------------------------------------------------------------------
C38_CompensationTouchesOwnOnly ==
    [][\A o \in Processors :
          (orch[o].pc = "handle_error" /\ release_stock_cs(o))
          => /\ \A r \in OtherReservations : reservations'[r] = reservations[r]
             /\ \A p \in products :
                   \/ inventory'[p] = inventory[p]
                   \/ \E r \in DOMAIN reservations \ OtherReservations :
                         /\ reservations[r].order_id = order_id_of(orch[o].user_id)
                         /\ reservations[r].status = "active"
                         /\ reservations'[r].status = "released"
                         /\ inventory'[p] = inventory[p] + reservations[r].quantity]_vars

\* the compensation has released a reservation of its own while the
\* reservation of the other order is still active
C38_Witness ==
    \E o \in Processors :
        /\ orch[o].pc \in {"handle_error", "failed"}
        /\ \E i \in DOMAIN orch[o].reservations :
              reservations[orch[o].reservations[i]].status = "released"
        /\ \E r \in OtherReservations : reservations[r].status = "active"

\* ---------------------------------------------------------------------
\* C37: the amount that a checkout passes to process_payment is the
\* subtotal of its items (unit price times quantity, added up) times
\* (1 + TAX_RATE), to the cent, and the stored order has that amount as
\* its total_amount.
\* ---------------------------------------------------------------------
RECURSIVE LineItemsTotal(_)
LineItemsTotal(items) ==
    IF items = <<>> THEN 0
    ELSE price[Head(items).product_id] * Head(items).quantity
         + LineItemsTotal(Tail(items))

CartInStock(items) ==
    \A i \in DOMAIN items :
        /\ items[i].product_id \in products
        /\ get_available_stock(items[i].product_id) >= items[i].quantity
        /\ inventory[items[i].product_id] >= items[i].quantity

C39_CartOrderCompletes ==
    \A o \in Processors :
        (/\ orch[o].items # <<>>
         /\ orch[o].user_id \in users
         /\ CartInStock(orch[o].items))
        => orch[o].pc # "failed"
====
